---- MODULE Spec2Model ----
(***************************************************************************)
(* A model of the iputils library (iputils.go): addresses are byte         *)
(* sequences of width 4 or 16, Next increments one in place, CompareIPs    *)
(* orders two of them, GetNetworkIPRange derives the bounds of a network   *)
(* and ipRangeIterator walks an inclusive range.                           *)
(*                                                                         *)
(* A Go byte slice is a sequence of naturals below 256.  A function that   *)
(* mutates its argument in place is an operator returning the buffer       *)
(* after the call together with the value the function returns.            *)
(***************************************************************************)
EXTENDS Integers, Sequences, FiniteSets, TLC

VARIABLES
    iter,       \* the ipRangeIterator: [first, last, next]
    ret,        \* what the latest iter.Next() returned: [ip, ok]
    calls,      \* how many times iter.Next() was called
    emitted,    \* the addresses iter.Next() returned with ok = true, in order
    desc,       \* what the latest iter.String() returned
    descCalls,  \* the value of calls when desc was taken
    pc,         \* "iter", or "call"/"done" for a single call of a function
    args,       \* the arguments of the single call, as they are now
    args0,      \* the arguments of the single call, as they were passed
    result      \* what the single call returned

vars == <<iter, ret, calls, emitted, desc, descCalls, pc, args, args0, result>>

----------------------------------------------------------------------------
(* Bounds of the model *)

\* The number of iter.Next() calls made on one iterator.
MaxCalls == 4

----------------------------------------------------------------------------
(* Constants of the package, iputils.go:11-31 *)

IPv4Size == 4

IPv6Size == 16

ByteMod == 2 ^ 8

Rep(n, b) == [i \in 1..n |-> b]

V4InV6Prefix == Rep(10, 0) \o <<255, 255>>

MaxIPv4 == <<255, 255, 255, 255>>

MaxIPv4In6 == Rep(10, 0) \o <<255, 255, 255, 255, 255, 255>>

MaxIPv6 == Rep(16, 255)

----------------------------------------------------------------------------
(* The functions of the package *)

\* CopyIP: a fresh buffer of the same size with the same bytes.
CopyIP(ip) == [i \in 1..Len(ip) |-> ip[i]]

\* The loop of Next: from byte i down, increment (uint8, wrapping) and stop
\* at the first byte that did not overflow.
RECURSIVE IncrFrom(_, _)
IncrFrom(ip, i) ==
    IF i < 1
    THEN ip
    ELSE LET v == (ip[i] + 1) % ByteMod
             ip2 == [ip EXCEPT ![i] = v]
         IN  IF v > 0 THEN ip2 ELSE IncrFrom(ip2, i - 1)

\* Next(ip): the buffer after the call and the boolean returned.
\* (NextNoMappedMax: Next without the MaxIPv4In6 test.)
NextNoMappedMax(ip) ==
    LET size == Len(ip) IN
    IF size = IPv4Size /\ ip = MaxIPv4
    THEN [ip |-> ip, ok |-> FALSE]
    ELSE IF size = IPv6Size /\ ip = MaxIPv6
    THEN [ip |-> ip, ok |-> FALSE]
    ELSE [ip |-> IncrFrom(ip, size), ok |-> TRUE]

Next(ip) ==
    LET size == Len(ip) IN
    IF size = IPv4Size /\ ip = MaxIPv4
    THEN [ip |-> ip, ok |-> FALSE]
    ELSE IF size = IPv6Size /\ (ip = MaxIPv4In6 \/ ip = MaxIPv6)
    THEN [ip |-> ip, ok |-> FALSE]
    ELSE [ip |-> IncrFrom(ip, size), ok |-> TRUE]

\* bytes.Compare as CompareIPs uses it: lexicographic on the bytes, from
\* index i on; a proper prefix precedes the longer buffer.
RECURSIVE BytesCompareFrom(_, _, _)
BytesCompareFrom(a, b, i) ==
    IF i > Len(a) /\ i > Len(b) THEN 0
    ELSE IF i > Len(a) THEN -1
    ELSE IF i > Len(b) THEN 1
    ELSE IF a[i] < b[i] THEN -1
    ELSE IF a[i] > b[i] THEN 1
    ELSE BytesCompareFrom(a, b, i + 1)

\* BytesCompareLittleEndian: the comparison started from the last byte.
RECURSIVE BytesCompareBackFrom(_, _, _)
BytesCompareBackFrom(a, b, i) ==
    IF i < 1
    THEN 0
    ELSE IF a[i] < b[i] THEN -1
    ELSE IF a[i] > b[i] THEN 1
    ELSE BytesCompareBackFrom(a, b, i - 1)

BytesCompareLittleEndian(a, b) == BytesCompareBackFrom(a, b, Len(a))

BytesCompare(a, b) == BytesCompareFrom(a, b, 1)

\* CompareIPs(a, b): the int and whether an error was returned.
\* (CompareIPsNoSizeCheck: CompareIPs without the test of the lengths.)
CompareIPsNoSizeCheck(a, b) == [res |-> BytesCompare(a, b), err |-> FALSE]

CompareIPs(a, b) ==
    IF Len(a) # Len(b)
    THEN [res |-> 0, err |-> TRUE]
    ELSE [res |-> BytesCompare(a, b), err |-> FALSE]

\* Bitwise operators on bytes, as Go's &, | and ^ (unary) on uint8.
RECURSIVE BitAnd(_, _)
BitAnd(x, y) ==
    IF x = 0 \/ y = 0
    THEN 0
    ELSE (x % 2) * (y % 2) + 2 * BitAnd(x \div 2, y \div 2)

RECURSIVE BitOr(_, _)
BitOr(x, y) ==
    IF x = 0 THEN y
    ELSE IF y = 0 THEN x
    ELSE (IF x % 2 = 1 \/ y % 2 = 1 THEN 1 ELSE 0) + 2 * BitOr(x \div 2, y \div 2)

BitNot(x) == (ByteMod - 1) - x

\* GetNetworkIPRange(n): n is [IP, Mask]; returns [first, last], two fresh
\* buffers of the size of n.IP.
\* (GetNetworkIPRangeOrMask: last computed without the complement.)
GetNetworkIPRangeOrMask(n) ==
    LET size == Len(n.IP) IN
    [first |-> [i \in 1..size |-> BitAnd(n.IP[i], n.Mask[i])],
     last  |-> [i \in 1..size |-> BitOr(n.IP[i], n.Mask[i])]]

GetNetworkIPRange(n) ==
    LET size == Len(n.IP) IN
    [first |-> [i \in 1..size |-> BitAnd(n.IP[i], n.Mask[i])],
     last  |-> [i \in 1..size |-> BitOr(n.IP[i], BitNot(n.Mask[i]))]]

\* GetIPRangeIterator(first, last): the iterator keeps first and last and
\* starts from a copy of first.
\* (GetIPRangeIteratorFromLast: the cursor copied from last instead.)
GetIPRangeIteratorFromLast(first, last) ==
    [first |-> first, last |-> last, next |-> CopyIP(last)]

GetIPRangeIterator(first, last) ==
    [first |-> first, last |-> last, next |-> CopyIP(first)]

\* ipRangeIterator.Next on iterator it: the iterator after the call and the
\* pair returned.  The boolean Next(iter.next) returns is dropped.
\* (IterNextSwapped: the arguments of CompareIPs exchanged;
\*  IterNextAlwaysAdvance: the cursor advanced before the test.)
IterNextSwapped(it) ==
    LET res == CopyIP(it.next)
        c == CompareIPs(it.last, it.next)
    IN  IF ~c.err /\ c.res <= 0
        THEN [iter |-> [it EXCEPT !.next = Next(it.next).ip],
              ret |-> [ip |-> res, ok |-> TRUE]]
        ELSE [iter |-> it, ret |-> [ip |-> res, ok |-> FALSE]]

IterNextAlwaysAdvance(it) ==
    LET res == CopyIP(it.next)
        c == CompareIPs(it.next, it.last)
        adv == [it EXCEPT !.next = Next(it.next).ip]
    IN  IF ~c.err /\ c.res <= 0
        THEN [iter |-> adv, ret |-> [ip |-> res, ok |-> TRUE]]
        ELSE [iter |-> adv, ret |-> [ip |-> res, ok |-> FALSE]]

IterNext(it) ==
    LET res == CopyIP(it.next)
        c == CompareIPs(it.next, it.last)
    IN  IF ~c.err /\ c.res <= 0
        THEN [iter |-> [it EXCEPT !.next = Next(it.next).ip],
              ret |-> [ip |-> res, ok |-> TRUE]]
        ELSE [iter |-> it, ret |-> [ip |-> res, ok |-> FALSE]]

\* ipRangeIterator.String: the format string and the arguments handed to
\* fmt.Sprintf.  The error of CompareIPs is dropped, its int is 0 then.
FmtNone == "IPRangeIterator(%v -> %v, next: none)"

FmtNext == "IPRangeIterator(%v -> %v, next: %v)"

IterString(it) ==
    IF CompareIPs(it.last, it.next).res < 0
    THEN [fmt |-> FmtNone, args |-> <<it.first, it.last>>]
    ELSE [fmt |-> FmtNext, args |-> <<it.first, it.last, it.next>>]

----------------------------------------------------------------------------
(* The inputs the model draws from *)

Zeros(n) == Rep(n, 0)

\* 4-byte addresses around the carries and around the maximum.
Pool4 ==
    { <<0, 0, 0, 0>>, <<0, 0, 0, 1>>, <<0, 0, 0, 255>>, <<0, 0, 1, 0>>,
      <<0, 255, 255, 255>>, <<1, 0, 0, 0>>, <<192, 168, 0, 1>>,
      <<255, 255, 255, 253>>, <<255, 255, 255, 254>>, MaxIPv4 }

\* 16-byte addresses around the carries, the IPv4-mapped maximum and the
\* maximum.
Pool16 ==
    { Zeros(16), Zeros(15) \o <<1>>, Zeros(15) \o <<255>>,
      Zeros(14) \o <<1, 0>>,
      V4InV6Prefix \o <<255, 255, 255, 253>>,
      V4InV6Prefix \o <<255, 255, 255, 254>>,
      MaxIPv4In6,
      Zeros(9) \o <<1, 0, 0, 0, 0, 0, 0>>,
      Zeros(9) \o <<1, 0, 0, 0, 0, 0, 1>>,
      Rep(15, 255) \o <<254>>, MaxIPv6 }

\* Buffers handed to Next: every 4-byte buffer over NextBytes, and 16-byte
\* buffers made of a 10-byte head, a 2-byte middle and a 4-byte tail.
NextBytes == {0, 1, 254, 255}

Tails == { <<w, x, y, z>> : w \in {0, 255}, x \in {0, 255}, y \in {0, 254, 255},
                            z \in {0, 254, 255} }

Heads == { Zeros(10), Rep(10, 255), Zeros(9) \o <<1>>, Rep(9, 255) \o <<254>>,
           Zeros(9) \o <<255>> }

Middles == { <<255, 255>>, <<255, 254>>, <<0, 0>>, <<0, 255>> }

NextPool ==
    { <<w, x, y, z>> : w \in NextBytes, x \in NextBytes, y \in NextBytes,
                       z \in NextBytes }
    \cup { h \o m \o t : h \in Heads, m \in Middles, t \in Tails }

\* Buffers handed to CompareIPs: both widths, and the 4-byte and 16-byte
\* forms of the same address.
ComparePool ==
    { <<0, 0, 0, 0>>, <<0, 0, 0, 1>>, <<0, 0, 1, 0>>, <<0, 1, 0, 0>>,
      <<1, 0, 0, 0>>, <<0, 0, 0, 255>>, <<192, 168, 0, 0>>, <<192, 168, 0, 1>>,
      MaxIPv4,
      Zeros(16), Zeros(15) \o <<1>>, <<1>> \o Zeros(15),
      Zeros(8) \o <<1>> \o Zeros(7), Zeros(7) \o <<2>> \o Zeros(8),
      V4InV6Prefix \o <<192, 168, 0, 1>>, MaxIPv4In6, MaxIPv6 }

\* Networks handed to GetNetworkIPRange: an address and a mask of its width.
MaskBytes == {0, 128, 192, 240, 252, 255}

NetIPs4 ==
    { <<192, 168, 0, 0>>, <<192, 168, 216, 192>>, <<192, 168, 216, 199>>,
      <<10, 1, 2, 3>>, <<0, 0, 0, 0>>, MaxIPv4 }

\* Well-formed masks (ones, then zeros) and some that are not.
Masks4 ==
    { <<w, x, y, z>> : w \in {0, 255}, x \in {0, 255}, y \in MaskBytes,
                       z \in MaskBytes }

NetIPs16 ==
    { <<190, 239>> \o Zeros(14), <<190, 239>> \o Zeros(6) \o Rep(8, 165),
      V4InV6Prefix \o <<192, 168, 216, 199>>, MaxIPv6 }

Masks16 ==
    { Rep(8, 255) \o Zeros(8), Rep(16, 255), Zeros(16),
      Rep(12, 255) \o <<255, 255, 255, 240>>, Rep(7, 255) \o <<240>> \o Zeros(8),
      Zeros(8) \o Rep(8, 255) }

NetPool ==
    { [IP |-> ip, Mask |-> m] : ip \in NetIPs4, m \in Masks4 }
    \cup { [IP |-> ip, Mask |-> m] : ip \in NetIPs16, m \in Masks16 }

----------------------------------------------------------------------------
(* The state machines *)

NoRet == [ip |-> <<>>, ok |-> FALSE]

NoDesc == [fmt |-> "", args |-> <<>>]

IterIdle ==
    /\ iter = [first |-> <<>>, last |-> <<>>, next |-> <<>>]
    /\ ret = NoRet
    /\ calls = 0
    /\ emitted = <<>>
    /\ desc = NoDesc
    /\ descCalls = 0

IterVars == <<iter, ret, calls, emitted, desc, descCalls>>

CallVars == <<pc, args, args0, result>>

\* An iterator over any two addresses of the pools, of the same width or not.
Init ==
    /\ \E first \in Pool4 \cup Pool16, last \in Pool4 \cup Pool16 :
            iter = GetIPRangeIterator(first, last)
    /\ ret = NoRet
    /\ calls = 0
    /\ emitted = <<>>
    /\ desc = NoDesc
    /\ descCalls = 0
    /\ pc = "iter"
    /\ args = <<>>
    /\ args0 = <<>>
    /\ result = <<>>

\* value, ok := iter.Next()
CallIterNext ==
    /\ pc = "iter"
    /\ calls < MaxCalls
    /\ LET r == IterNext(iter) IN
          /\ iter' = r.iter
          /\ ret' = r.ret
          /\ emitted' = IF r.ret.ok THEN Append(emitted, r.ret.ip) ELSE emitted
    /\ calls' = calls + 1
    /\ UNCHANGED <<desc, descCalls>>
    /\ UNCHANGED CallVars

\* iter.String()
CallIterString ==
    /\ pc = "iter"
    /\ desc' = IterString(iter)
    /\ descCalls' = calls
    /\ UNCHANGED <<iter, ret, calls, emitted>>
    /\ UNCHANGED CallVars

IterStep == CallIterNext \/ CallIterString

Spec == Init /\ [][IterStep]_vars

\* One call of Next(ip) on a buffer.
InitNext ==
    /\ IterIdle
    /\ pc = "call"
    /\ args \in NextPool
    /\ args0 = args
    /\ result = FALSE

CallNext ==
    /\ pc = "call"
    /\ LET r == Next(args) IN
          /\ args' = r.ip
          /\ result' = r.ok
    /\ pc' = "done"
    /\ UNCHANGED args0
    /\ UNCHANGED IterVars

SpecNext == InitNext /\ [][CallNext]_vars

\* CompareIPs on the pairs of three buffers a, b, c.
InitCompare ==
    /\ IterIdle
    /\ pc = "call"
    /\ args \in ComparePool \X ComparePool \X ComparePool
    /\ args0 = args
    /\ result = <<>>

CallCompareIPs ==
    /\ pc = "call"
    /\ result' = [ab |-> CompareIPs(args[1], args[2]),
                  ba |-> CompareIPs(args[2], args[1]),
                  bc |-> CompareIPs(args[2], args[3]),
                  ac |-> CompareIPs(args[1], args[3]),
                  aa |-> CompareIPs(args[1], args[1])]
    /\ pc' = "done"
    /\ UNCHANGED <<args, args0>>
    /\ UNCHANGED IterVars

SpecCompare == InitCompare /\ [][CallCompareIPs]_vars

\* One call of GetNetworkIPRange(n).
InitNetwork ==
    /\ IterIdle
    /\ pc = "call"
    /\ args \in NetPool
    /\ args0 = args
    /\ result = <<>>

CallGetNetworkIPRange ==
    /\ pc = "call"
    /\ result' = GetNetworkIPRange(args)
    /\ pc' = "done"
    /\ UNCHANGED <<args, args0>>
    /\ UNCHANGED IterVars

SpecNetwork == InitNetwork /\ [][CallGetNetworkIPRange]_vars

----------------------------------------------------------------------------
(* Big-endian unsigned values.  The value of a 16-byte buffer does not fit  *)
(* TLC's integers, so a value is written in base 2^16: the sequence of     *)
(* the 16-bit digits of the buffer, most significant first.                 *)

LimbBase == ByteMod * ByteMod

Limbs(ip) == [i \in 1..(Len(ip) \div 2) |-> ip[2 * i - 1] * ByteMod + ip[2 * i]]

\* m < n for two values of the same number of digits.
NumLess(m, n) ==
    \E k \in 1..Len(m) :
        /\ \A j \in 1..(k - 1) : m[j] = n[j]
        /\ m[k] < n[k]

\* m + c, adding c at digit i and carrying upwards; <<>> when the sum does
\* not fit the digits of m.
RECURSIVE NumPlusAt(_, _, _)
NumPlusAt(m, i, c) ==
    IF c = 0 THEN m
    ELSE IF i = 0 THEN <<>>
    ELSE LET t == m[i] + c
         IN  NumPlusAt([m EXCEPT ![i] = t % LimbBase], i - 1, t \div LimbBase)

NumPlus(m, c) == NumPlusAt(m, Len(m), c)

\* Bit k of byte x.
Bit(x, k) == (x \div (2 ^ k)) % 2

AllBytes(ip, from, to, b) == \A i \in from..to : ip[i] = b

\* The buffers Next must refuse: all-0xFF, and at width 16 the IPv4-mapped
\* maximum as well.
KnownMaximum(ip) ==
    \/ AllBytes(ip, 1, Len(ip), 255)
    \/ Len(ip) = 16 /\ AllBytes(ip, 1, 10, 0) /\ AllBytes(ip, 11, 16, 255)

SameWidth == Len(iter.first) = Len(iter.last)

SameValidWidth == SameWidth /\ Len(iter.first) \in {4, 16}

\* a <= b under CompareIPs.
Leq(a, b) == ~CompareIPs(a, b).err /\ CompareIPs(a, b).res <= 0

----------------------------------------------------------------------------
(* The claims *)

\* C1: over same-width first <= last, the addresses returned with ok = true
\* are first, first+1, ... in ascending order, each once and none above
\* last, and a call reports ok = false only after last was returned, so the
\* call after the one returning last reports false - also when last is the
\* maximum of its width or the range contains the IPv4-mapped maximum.
C1_ExactRange ==
    (pc = "iter" /\ SameValidWidth /\ Leq(iter.first, iter.last)) =>
        /\ \A i \in 1..Len(emitted) :
              /\ Limbs(emitted[i]) = NumPlus(Limbs(iter.first), i - 1)
              /\ ~NumLess(Limbs(iter.last), Limbs(emitted[i]))
        /\ calls > Len(emitted) =>
              /\ Len(emitted) > 0
              /\ emitted[Len(emitted)] = iter.last

\* C2: Next on a buffer of width 4 or 16 returns false, leaving the buffer
\* as it was, exactly when the buffer is a known maximum of its width;
\* otherwise it returns true, the value of the buffer is the old value plus
\* 1 and the length is the old length.
C2_NextSuccessor ==
    (pc = "done" /\ Len(args0) \in {4, 16}) =>
        /\ Len(args) = Len(args0)
        /\ (result = FALSE) <=> KnownMaximum(args0)
        /\ KnownMaximum(args0) => args = args0
        /\ ~KnownMaximum(args0) =>
              /\ result = TRUE
              /\ Limbs(args) = NumPlus(Limbs(args0), 1)

\* A 16-byte buffer whose carry crosses two bytes was incremented.
C2_Witness ==
    /\ pc = "done"
    /\ Len(args0) = 16
    /\ args0[15] = 255
    /\ args0[16] = 255
    /\ result = TRUE
    /\ args # args0

\* C3: on an iterator over first and last of the same valid width, every
\* address returned with ok = true lies between first and last under
\* CompareIPs.
C3_WithinBounds ==
    (pc = "iter" /\ SameValidWidth) =>
        /\ \A i \in 1..Len(emitted) :
              Leq(iter.first, emitted[i]) /\ Leq(emitted[i], iter.last)
        /\ (calls > 0 /\ ret.ok) =>
              Leq(iter.first, ret.ip) /\ Leq(ret.ip, iter.last)

\* Two addresses were returned and the iterator then reported exhaustion.
C3_Witness ==
    /\ pc = "iter"
    /\ SameValidWidth
    /\ Len(emitted) >= 2
    /\ calls > Len(emitted)
    /\ ~ret.ok

\* C4: once a call of the iterator's Next has returned ok = false, every
\* later step leaves the returned pair, the cursor, first and last as they
\* are: later calls return the same address with ok = false.
C4_ExhaustionTerminal ==
    [][(pc = "iter" /\ calls > 0 /\ ~ret.ok) => (ret' = ret /\ iter' = iter)]_vars

\* An address was returned and then two calls reported exhaustion.
C4_Witness ==
    /\ pc = "iter"
    /\ Len(emitted) >= 1
    /\ calls >= Len(emitted) + 2
    /\ ~ret.ok

\* C5: with same-width first > last, every call, the first one included,
\* returns (first, false), the cursor stays at first and no address is ever
\* returned with ok = true.
C5_EmptyRange ==
    (pc = "iter" /\ SameWidth /\ CompareIPs(iter.first, iter.last).res > 0
       /\ calls >= 1) =>
        /\ ret = [ip |-> iter.first, ok |-> FALSE]
        /\ iter.next = iter.first
        /\ emitted = <<>>

\* The first call on an iterator with first > last has returned.
C5_Witness ==
    /\ pc = "iter"
    /\ SameWidth
    /\ CompareIPs(iter.first, iter.last).res > 0
    /\ calls = 1

\* C6: over same-width first <= last, a call that reports ok = false returns
\* the last address of the range, the final address returned with ok = true.
C6_ReturnsLastOnExhaustion ==
    (pc = "iter" /\ SameValidWidth /\ Leq(iter.first, iter.last)
       /\ calls > 0 /\ ~ret.ok) =>
        /\ ret.ip = iter.last
        /\ Len(emitted) > 0
        /\ ret.ip = emitted[Len(emitted)]

\* C7: on equal-width buffers CompareIPs returns no error and the order of
\* the big-endian unsigned values: 0 iff equal bytes, -1 iff the value of a
\* is smaller, +1 iff larger; it is reflexive, antisymmetric and transitive.
C7_TotalOrder ==
    (pc = "done" /\ Len(args[1]) = Len(args[2]) /\ Len(args[2]) = Len(args[3])) =>
        LET a == args[1]
            b == args[2]
        IN  /\ ~result.ab.err /\ ~result.ba.err /\ ~result.bc.err
            /\ ~result.ac.err /\ ~result.aa.err
            /\ result.ab.res \in {-1, 0, 1}
            /\ (result.ab.res = 0) <=> (a = b)
            /\ (result.ab.res = -1) <=> NumLess(Limbs(a), Limbs(b))
            /\ (result.ab.res = 1) <=> NumLess(Limbs(b), Limbs(a))
            /\ result.aa.res = 0
            /\ result.ab.res = -result.ba.res
            /\ (result.ab.res <= 0 /\ result.bc.res <= 0) => result.ac.res <= 0

\* a < b < c although the last byte of a is above that of b.
C7_Witness ==
    /\ pc = "done"
    /\ Len(args[1]) = Len(args[2])
    /\ Len(args[2]) = Len(args[3])
    /\ result.ab.res = -1
    /\ result.bc.res = -1
    /\ result.ac.res = -1
    /\ args[1][Len(args[1])] > args[2][Len(args[2])]

\* C8: CompareIPs returns an error if and only if the lengths of the two
\* buffers differ, and then no comparison result (the int is 0).
C8_SizeMismatch ==
    pc = "done" =>
        /\ result.ab.err <=> (Len(args[1]) # Len(args[2]))
        /\ result.ba.err <=> (Len(args[1]) # Len(args[2]))
        /\ result.bc.err <=> (Len(args[2]) # Len(args[3]))
        /\ result.ac.err <=> (Len(args[1]) # Len(args[3]))
        /\ ~result.aa.err
        /\ result.ab.err => result.ab.res = 0
        /\ result.bc.err => result.bc.res = 0
        /\ result.ac.err => result.ac.res = 0

\* The 4-byte and the 16-byte form of 192.168.0.1 were compared.
C8_Witness ==
    /\ pc = "done"
    /\ args[1] = <<192, 168, 0, 1>>
    /\ args[2] = Zeros(10) \o <<255, 255, 192, 168, 0, 1>>
    /\ result.ab.err
    /\ result.ba.err

\* C9: for an address and a mask of the same width GetNetworkIPRange returns
\* two buffers of that width with, bit by bit, first = address AND mask and
\* last = address OR NOT mask; address and mask are as they were passed, and
\* first[i] <= last[i] at every byte.
C9_NetworkRange ==
    (pc = "done" /\ Len(args0.IP) = Len(args0.Mask)) =>
        /\ args = args0
        /\ Len(result.first) = Len(args0.IP)
        /\ Len(result.last) = Len(args0.IP)
        /\ \A i \in 1..Len(args0.IP) :
              /\ result.first[i] \in 0..255
              /\ result.last[i] \in 0..255
              /\ result.first[i] <= result.last[i]
              /\ \A k \in 0..7 :
                    /\ (Bit(result.first[i], k) = 1) <=>
                          (Bit(args0.IP[i], k) = 1 /\ Bit(args0.Mask[i], k) = 1)
                    /\ (Bit(result.last[i], k) = 1) <=>
                          (Bit(args0.IP[i], k) = 1 \/ Bit(args0.Mask[i], k) = 0)

\* 192.168.216.199/28 gave 192.168.216.192 and 192.168.216.207.
C9_Witness ==
    /\ pc = "done"
    /\ args0 = [IP |-> <<192, 168, 216, 199>>, Mask |-> <<255, 255, 255, 240>>]
    /\ result = [first |-> <<192, 168, 216, 192>>, last |-> <<192, 168, 216, 207>>]

\* C10: the description taken after k calls of Next on an iterator over
\* same-width first <= last renders first and last, renders the cursor
\* first+k as long as first+k <= last, and renders "none" exactly when the
\* cursor exceeds last, that is once every address of the range has been
\* returned.
C10_Description ==
    (pc = "iter" /\ desc # NoDesc /\ descCalls = calls /\ SameValidWidth
       /\ Leq(iter.first, iter.last)) =>
        LET target == NumPlus(Limbs(iter.first), calls)
            inRange == target # <<>> /\ ~NumLess(Limbs(iter.last), target)
        IN  /\ desc.args[1] = iter.first
            /\ desc.args[2] = iter.last
            /\ inRange => (desc.fmt = FmtNext /\ Limbs(desc.args[3]) = target)
            /\ (desc.fmt = FmtNone) <=> NumLess(Limbs(iter.last), Limbs(iter.next))
            /\ (desc.fmt = FmtNone) <=>
                  (\E i \in 1..Len(emitted) : emitted[i] = iter.last)

====
